---- MODULE Spec2Model ----
(***************************************************************************)
(* The LocationDrawer question flow (src/unnamed/part_002): a React        *)
(* component that presents one question at a time, appends an Answer per   *)
(* selected option, asks the caller-supplied onAnswer for the next         *)
(* question, and recomputes the previous question on "back".               *)
(*                                                                         *)
(* Each invocation of an async handler (handleOptionSelect, handleBack) is *)
(* a task: the synchronous prefix of the handler is one action, and each   *)
(* continuation after an await is another.  Time is counted in             *)
(* milliseconds and advances in steps of TickMs.                           *)
(*                                                                         *)
(* The component is given its props either by an arbitrary caller or by    *)
(* MapBasedLocationDrawer (src/components/LocationDrawer.MapExample.tsx),  *)
(* whose handleAnswer walks MAP_DATA.  Two further components are          *)
(* modelled on their own: HamburgerMenu with its report dialog             *)
(* (src/components/hamburgerMenu.tsx) and AddMemberDrawer                  *)
(* (src/components/addMemberDrawer.tsx).                                   *)
(***************************************************************************)
EXTENDS Integers, Sequences, FiniteSets, TLC

\* ------------------------------------------------------------------ bounds
MaxOptions == 2        \* options of each question that the user may pick
MaxAnswers == 3        \* longest History the model lets the user build
MaxTasks == 2          \* handler invocations that may be in flight at once
MaxDisturbances == 1   \* deviating onAnswer outcomes plus resets that overtake a handler
TickMs == 250          \* granularity of the clock
MaxElapsedMs == 750    \* elapsed times are not told apart beyond this
MaxMapOptions == 6     \* options of each question of the map flow that the user may pick
MaxMapAnswers == 6     \* longest History the model lets the user build in the map flow
MaxSent == 2           \* chat messages sent while the report dialog stays mounted
MaxMembers == 2        \* addMember calls

\* ------------------------------------------------------- program constants
MIN_LOADING_MS == 500  \* minimum loading time of a handler
POPOUT_LINGER_MS == 500 \* the popout's hide timer
MAP_DELAY_MS == 300    \* handleAnswer's simulated processing time

\* onAnswer's terminal value, and its failure (a throw or a rejected promise);
\* records, so that they compare with Questions.
Null == [id |-> "null", options |-> <<>>]
Rejected == [id |-> "rejected", options |-> <<>>]
NoTask == [kind |-> "none"]
NoTimer == -1

Min(a, b) == IF a < b THEN a ELSE b
Front(s) == SubSeq(s, 1, Len(s) - 1)

\* ------------------------------------------------------------- question data
Option(v, l) == [value |-> v, label |-> l]

\* The example question tree; titles and descriptions are presentation only.
\* Each option list is cut to its first MaxOptions options.
QUESTION_TREE ==
  [ initial    |-> [id |-> "location",
                    options |-> <<Option("restaurant", "Restaurant"),
                                  Option("entrance", "Entrance"),
                                  Option("restroom", "Restroom"),
                                  Option("shop", "Shop")>>],
    restaurant |-> [id |-> "restaurant-detail",
                    options |-> <<Option("inside", "Dining area"),
                                  Option("queue", "Queue"),
                                  Option("counter", "Counter"),
                                  Option("outside", "Outside")>>],
    entrance   |-> [id |-> "entrance-type",
                    options |-> <<Option("main", "Main gate"),
                                  Option("side", "Side door"),
                                  Option("emergency", "Emergency exit"),
                                  Option("service", "Service entrance")>>],
    restroom   |-> [id |-> "restroom-detail",
                    options |-> <<Option("mens", "Men"),
                                  Option("womens", "Women"),
                                  Option("accessible", "Accessible"),
                                  Option("family", "Family")>>],
    shop       |-> [id |-> "shop-detail",
                    options |-> <<Option("checkout", "Checkout"),
                                  Option("browsing", "Browsing"),
                                  Option("entrance", "Shop entrance"),
                                  Option("fitting", "Fitting room")>>],
    final      |-> [id |-> "urgency",
                    options |-> <<Option("urgent", "Urgent"),
                                  Option("normal", "Normal"),
                                  Option("low", "Low")>>] ]

\* The reference decision function: the next question for a complete history.
getNextQuestion(h) ==
  IF Len(h) = 0 THEN QUESTION_TREE.initial
  ELSE IF Len(h) = 1 THEN
    CASE h[1].value = "restaurant" -> QUESTION_TREE.restaurant
      [] h[1].value = "entrance"   -> QUESTION_TREE.entrance
      [] h[1].value = "restroom"   -> QUESTION_TREE.restroom
      [] h[1].value = "shop"       -> QUESTION_TREE.shop
      [] OTHER                     -> Null
  ELSE IF Len(h) = 2 THEN QUESTION_TREE.final
  ELSE Null

\* ------------------------------------------------- the map-based question flow
\* MAP_DATA of MapBasedLocationDrawer; names are presentation only, and the
\* coordinates play no part in the flow.  A location without sections has
\* the empty list.
MAP_DATA ==
  [ floors    |-> <<-1, 1, 2, 3, 4, 5>>,
    landmarks |-> << [id |-> "elevator-a", name |-> "Elevator A"],
                     [id |-> "elevator-b", name |-> "Elevator B"],
                     [id |-> "stairs-1", name |-> "Stairs 1"],
                     [id |-> "exit-north", name |-> "North exit"],
                     [id |-> "exit-south", name |-> "South exit"] >>,
    locations |-> << [id |-> "restaurant-1", name |-> "Food court",
                      type |-> "restaurant", floor |-> 3,
                      nearbyLandmarks |-> <<"elevator-a", "stairs-1">>,
                      sections |-> <<"inside", "queue", "counter">>],
                     [id |-> "restaurant-2", name |-> "Japanese restaurant",
                      type |-> "restaurant", floor |-> 2,
                      nearbyLandmarks |-> <<"elevator-b">>,
                      sections |-> <<"inside", "queue">>],
                     [id |-> "entrance-main", name |-> "Main gate",
                      type |-> "entrance", floor |-> 1,
                      nearbyLandmarks |-> <<"exit-north">>,
                      sections |-> <<>>],
                     [id |-> "restroom-3f", name |-> "3F restroom",
                      type |-> "restroom", floor |-> 3,
                      nearbyLandmarks |-> <<"elevator-a">>,
                      sections |-> <<"mens", "womens", "accessible">>],
                     [id |-> "shop-1", name |-> "Convenience store",
                      type |-> "shop", floor |-> 1,
                      nearbyLandmarks |-> <<"entrance-main">>,
                      sections |-> <<"checkout", "browsing">>] >> ]

\* What JavaScript gives for a missing property.
Undefined == "undefined"

\* floor.toString() for the floors of the map.
FloorToString(floor) ==
  CASE floor = -1 -> "-1" [] floor = 0 -> "0" [] floor = 1 -> "1"
    [] floor = 2 -> "2" [] floor = 3 -> "3" [] floor = 4 -> "4"
    [] floor = 5 -> "5"

\* parseInt(s): the one-element sequence of the number, or the empty
\* sequence for NaN, which equals no floor.
ParseInt(s) ==
  IF \E f \in -1..5 : FloorToString(f) = s
  THEN <<CHOOSE f \in -1..5 : FloorToString(f) = s>>
  ELSE <<>>

\* The label of a floor option.
FloorLabel(floor) ==
  IF floor > 0 THEN FloorToString(floor) \o "F"
  ELSE IF floor = 0 THEN "Ground" ELSE "B" \o FloorToString(-floor)

\* Sequence s without the repetitions of its elements: Array.from(new Set(s)).
RECURSIVE Unique(_)
Unique(s) ==
  IF s = <<>> THEN <<>>
  ELSE LET front == Unique(Front(s))
           last == s[Len(s)]
       IN IF \E i \in 1..Len(front) : front[i] = last THEN front
          ELSE Append(front, last)

\* The initialQuestion of MapBasedLocationDrawer.
MapInitialQuestion ==
  [id |-> "floor",
   options |-> [i \in 1..Len(MAP_DATA.floors) |->
                  Option(FloorToString(MAP_DATA.floors[i]), FloorLabel(MAP_DATA.floors[i]))]]

\* answerMap[questionId] of handleAnswer: the value of the last Answer with
\* that questionId.
AnswerMap(h, questionId) ==
  LET idx == {i \in 1..Len(h) : h[i].questionId = questionId}
  IN IF idx = {} THEN Undefined
     ELSE h[CHOOSE i \in idx : \A j \in idx : j <= i].value

\* answers.find((a) => a.questionId === questionId)?.value
FindValue(h, questionId) ==
  LET idx == {i \in 1..Len(h) : h[i].questionId = questionId}
  IN IF idx = {} THEN Undefined
     ELSE h[CHOOSE i \in idx : \A j \in idx : i <= j].value

\* getLocationById: the one-element sequence of the location, or empty.
getLocationById(id) ==
  LET HasId(loc) == loc.id = id
      found == SelectSeq(MAP_DATA.locations, HasId)
  IN IF found = <<>> THEN <<>> ELSE <<found[1]>>

\* getNearbyLandmarks
getNearbyLandmarks(locationId) ==
  LET location == getLocationById(locationId)
  IN IF location = <<>> THEN <<>>
     ELSE LET Near(landmark) ==
                \E i \in 1..Len(location[1].nearbyLandmarks) :
                  location[1].nearbyLandmarks[i] = landmark.id
          IN SelectSeq(MAP_DATA.landmarks, Near)

TypeLabel(type) ==
  CASE type = "restaurant" -> "Restaurant" [] type = "entrance" -> "Entrance"
    [] type = "restroom" -> "Restroom" [] type = "shop" -> "Shop"
    [] type = "landmark" -> "Landmark" [] OTHER -> type

SectionLabel(section) ==
  CASE section = "inside" -> "Inside" [] section = "queue" -> "Queue"
    [] section = "counter" -> "Counter" [] section = "checkout" -> "Checkout"
    [] section = "browsing" -> "Browsing" [] section = "mens" -> "Men"
    [] section = "womens" -> "Women" [] section = "accessible" -> "Accessible"
    [] OTHER -> section

\* A faulty variant of LandmarkStage: the landmark question is asked at any
\* length.
LandmarkStageAlways(h, answerMapOf) == TRUE

\* handleAnswer's test for "Question 5": answers is the array as it is then,
\* answerMapOf the array as it was passed.
LandmarkStage(h, answerMapOf) ==
  Len(h) = 4 \/ (Len(h) = 3 /\ AnswerMap(answerMapOf, "section") = Undefined)

\* handleAnswer, questions 4 and 5: passed is the array as it was passed
\* (answerMap is built from it), h the array as it is now.
SectionOrLandmark(passed, h) ==
  LET locationId3 == IF AnswerMap(passed, "specific-location") # Undefined
                     THEN AnswerMap(passed, "specific-location")
                     ELSE IF Len(h) >= 3 THEN h[3].value ELSE Undefined
      location3 == getLocationById(locationId3)
      locationId5 == IF AnswerMap(passed, "specific-location") # Undefined
                     THEN AnswerMap(passed, "specific-location")
                     ELSE FindValue(h, "specific-location")
      landmarks == getNearbyLandmarks(locationId5)
  IN IF Len(h) = 3 /\ location3 # <<>> /\ location3[1].sections # <<>>
     THEN [id |-> "section",
           options |-> [i \in 1..Len(location3[1].sections) |->
                          Option(location3[1].sections[i],
                                 SectionLabel(location3[1].sections[i]))]]
     ELSE IF LandmarkStage(h, passed) /\ locationId5 # Undefined /\ landmarks # <<>>
     THEN [id |-> "landmark",
           options |-> [i \in 1..Len(landmarks) |->
                          Option(landmarks[i].id, landmarks[i].name)]
                       \o <<Option("none", "None")>>]
     ELSE Null

\* handleAnswer(answers) of MapBasedLocationDrawer: the array it was passed
\* as it is when the call returns (answers.push mutates it), and the Question
\* or null it returns.
handleAnswer(h) ==
  LET floor == ParseInt(AnswerMap(h, "floor"))
      OnFloor(loc) == <<loc.floor>> = floor
      OnFloorOfType(loc) ==
        <<loc.floor>> = floor /\ loc.type = AnswerMap(h, "location-type")
      locationsOnFloor == SelectSeq(MAP_DATA.locations, OnFloor)
      uniqueTypes == Unique([i \in 1..Len(locationsOnFloor) |-> locationsOnFloor[i].type])
      ofType == SelectSeq(MAP_DATA.locations, OnFloorOfType)
      pushed == Append(h, [questionId |-> "specific-location",
                           value |-> ofType[1].id, label |-> ofType[1].name])
  IN IF Len(h) = 1 THEN
       IF uniqueTypes = <<>>
       THEN [answers |-> h,
             question |-> [id |-> "no-locations",
                           options |-> <<Option("corridor", "Corridor"),
                                         Option("open-area", "Open area"),
                                         Option("other", "Other")>>]]
       ELSE [answers |-> h,
             question |-> [id |-> "location-type",
                           options |-> [i \in 1..Len(uniqueTypes) |->
                                          Option(uniqueTypes[i], TypeLabel(uniqueTypes[i]))]]]
     ELSE IF Len(h) = 2 THEN
       IF ofType = <<>> THEN [answers |-> h, question |-> Null]
       ELSE IF Len(ofType) = 1
       THEN [answers |-> pushed, question |-> SectionOrLandmark(h, pushed)]
       ELSE [answers |-> h,
             question |-> [id |-> "specific-location",
                           options |-> [i \in 1..Len(ofType) |->
                                          Option(ofType[i].id, ofType[i].name)]]]
     ELSE [answers |-> h, question |-> SectionOrLandmark(h, h)]

\* ------------------------------------------------------------------- state
VARIABLES
  open,               \* useState: the drawer is open
  currentQuestion,    \* useState: the question on display
  answers,            \* useState: the History
  direction,          \* useState: 1 forward, -1 backward
  isInitial,          \* useState
  isLoading,          \* useState: the busy flag
  showLoadingPopout,  \* useState: the popout is visible
  popoutTimer,        \* ms left on the effect's hide timer, or NoTimer
  tasks,              \* in-flight handler invocations, by slot
  completions,        \* observation: onComplete calls since the last reset
  trail,              \* observation: what each committed forward step presented
  faults,             \* observation: deviating onAnswer outcomes and onComplete throws so far
  raced,              \* observation: resets that happened with a task in flight
  onFaultCalls,       \* observation: failures handed to the caller (the props have no such callback)
  uncaught,           \* observation: exceptions that left a handler uncaught
  backIgnored,        \* observation: the last click was a handleBack that returned at once
  provider            \* props: which onAnswer, initialQuestion and onComplete the component was given

\* HamburgerMenu with its UserDrawer and StatusReportDialog
\* (src/components/hamburgerMenu.tsx).
VARIABLES
  userData,           \* HamburgerMenu useState: the current user, or NullUser
  emergencyContacts,  \* HamburgerMenu useState
  news,               \* HamburgerMenu useState
  fetches,            \* the three fetches of the mount effect: pending, fulfilled or rejected
  menuOpen,           \* the menu drawer is open, so its content (the dialogs) is mounted
  isReportDialogOpen, \* UserDrawer useState
  messages,           \* StatusReportDialog useState
  inputMessage,       \* StatusReportDialog useState
  sent                \* observation: what handleSendMessage appended since the dialog was mounted

\* AddMemberDrawer (src/components/addMemberDrawer.tsx).
VARIABLES
  isOpen,             \* useState
  newMember,          \* useState: the form
  addMemberCalls,     \* observation: the arguments of the addMember calls so far
  alertShown          \* observation: the last click on the submit button raised the alert

engineVars == <<open, currentQuestion, answers, direction, isInitial, isLoading,
                showLoadingPopout, popoutTimer, tasks, completions, trail, faults, raced,
                onFaultCalls, uncaught, backIgnored, provider>>
menuVars == <<userData, emergencyContacts, news, fetches, menuOpen, isReportDialogOpen,
              messages, inputMessage, sent>>
memberVars == <<isOpen, newMember, addMemberCalls, alertShown>>
vars == <<engineVars, menuVars, memberVars>>

\* The props are those of MapBasedLocationDrawer; otherwise onAnswer and
\* onComplete are any callbacks and initialQuestion is that of the tree.
MapFlow == provider = "handleAnswer"

\* The initialQuestion prop of the component.
initialQuestion == IF MapFlow THEN MapInitialQuestion ELSE QUESTION_TREE.initial

\* The options of question q that a user of the model can click.
Clickable(q) ==
  {q.options[i] : i \in 1..Min(IF MapFlow THEN MaxMapOptions ELSE MaxOptions,
                               Len(q.options))}

\* The longest History from which the model lets the user select.
HistoryBound == IF MapFlow THEN MaxMapAnswers ELSE MaxAnswers

\* What a call onAnswer(h) may settle with.  handleAnswer gives what it
\* computes; otherwise the component accepts any callback, so any Question,
\* null, or a rejection.
OnAnswerOutcomes(h) ==
  IF MapFlow THEN {handleAnswer(h).question}
  ELSE {QUESTION_TREE[k] : k \in DOMAIN QUESTION_TREE} \cup {Null, Rejected}

\* The Answers that the call onAnswer(h) appends to the array it was handed.
Pushed(h) ==
  IF MapFlow THEN SubSeq(handleAnswer(h).answers, Len(h) + 1, Len(handleAnswer(h).answers))
  ELSE <<>>

TaskIds == 1..MaxTasks
Live == {t \in TaskIds : tasks[t] # NoTask}
Outstanding == {t \in Live : tasks[t].pc = "onAnswer"}
FreeSlot == CHOOSE t \in TaskIds : tasks[t] = NoTask /\ \A u \in 1..(t - 1) : tasks[u] # NoTask

\* ----------------------------------------------------- the popout's effect
\* A faulty variant of EffectShow: the popout is hidden as soon as loading
\* is over.
EffectShowFollowsLoading(l, s) == l

\* useEffect on [isLoading, showLoadingPopout]: the value of showLoadingPopout
\* after the effect has run for the rendered pair (l, s).
EffectShow(l, s) == IF l THEN TRUE ELSE s

\* The hide timer after the effect has run: the cleanup clears the old timer
\* whenever a dependency changed; a new one is started when loading is over
\* and the popout is still shown.
EffectTimer(l0, s0, l, s, timer) ==
  IF l = l0 /\ s = s0 THEN timer
  ELSE IF l THEN NoTimer
  ELSE IF s THEN POPOUT_LINGER_MS
  ELSE NoTimer

\* setIsLoading(l) and setShowLoadingPopout(s) rendered, then the effect.
Render(l, s) ==
  /\ isLoading' = l
  /\ showLoadingPopout' = EffectShow(l, s)
  /\ popoutTimer' = EffectTimer(isLoading, showLoadingPopout, l, s, popoutTimer)

\* ------------------------------------------------------------- the handlers
\* The Answer built from the question on display and the clicked option.
NewAnswer(q, option) ==
  [questionId |-> q.id, value |-> option.value, label |-> option.label]

\* A faulty variant of SelectArg: the closure's answers, without the new
\* Answer, are handed over.
SelectArgStale(newAnswers) == answers

\* A faulty variant of SelectArg: only the newest Answer is handed over.
SelectArgLastOnly(newAnswers) == <<newAnswers[Len(newAnswers)]>>

\* The history handleOptionSelect hands to onAnswer.
SelectArg(newAnswers) == newAnswers

\* A faulty variant of SliceLast: answers.slice(1) drops the first Answer.
SliceFirst(h) == Tail(h)

\* answers.slice(0, -1)
SliceLast(h) == Front(h)

\* A faulty variant of BackToInitial: onAnswer is asked even for the empty
\* history.
BackToInitialNever(newAnswers) == FALSE

\* handleBack's test for "back to initial question", which needs no call.
BackToInitial(newAnswers) == Len(newAnswers) = 0

\* A faulty variant of BackArg: the closure's untruncated answers are handed
\* over.
BackArgUntruncated(newAnswers) == answers

\* The history handleBack hands to onAnswer.
BackArg(newAnswers) == newAnswers

\* A handler invocation: the currentQuestion and answers its closure holds,
\* its locals (newAnswers; nextQuestion or previousQuestion), where it is
\* (pc), the time since its startTime, the history it gave onAnswer (called is
\* FALSE when it made no call), whether a reset happened since it began, and
\* whether its newAnswers array is the one the answers state holds (current).
Task(kind, newAnswers, called, arg, pc, timer) ==
  [kind |-> kind, currentQuestion |-> currentQuestion, answers |-> answers,
   newAnswers |-> newAnswers, called |-> called, arg |-> arg, pc |-> pc,
   elapsed |-> 0, timer |-> timer, nextQuestion |-> Null, stale |-> FALSE,
   current |-> TRUE]

\* The tasks once a handler has begun in the given slot: setAnswers(newAnswers)
\* makes its array the state, so no other task's array is the state any more.
Begin(slot, task) ==
  [u \in TaskIds |->
     IF u = slot THEN task
     ELSE IF tasks[u] = NoTask THEN NoTask
     ELSE [tasks[u] EXCEPT !.current = FALSE]]

\* The record of a step: the question it presented with the History it left.
\* trail holds the steps of the current run that have not been gone back on:
\* start, then one per selectOption whose onAnswer gave an outcome; goBack
\* drops the last.  It is kept only as long as no reset has overtaken a
\* handler (raced = 0).
Present(q, h) == [question |-> q, answers |-> h]

\* A faulty variant of handleReset: isLoading is left as it is.
handleResetKeepsLoading ==
  /\ currentQuestion' = initialQuestion
  /\ answers' = <<>>
  /\ direction' = 1
  /\ isInitial' = TRUE
  /\ Render(isLoading, FALSE)

\* handleReset, called by onOpenChange(true).
handleReset ==
  /\ currentQuestion' = initialQuestion
  /\ answers' = <<>>
  /\ direction' = 1
  /\ isInitial' = TRUE
  /\ Render(FALSE, FALSE)

\* A faulty variant of OpenDrawer: onOpenChange(true) only opens the drawer.
OpenDrawerWithoutReset ==
  /\ ~open
  /\ Live = {} \/ faults + raced < MaxDisturbances
  /\ open' = TRUE
  /\ UNCHANGED <<currentQuestion, answers, direction, isInitial, isLoading,
                 showLoadingPopout, popoutTimer>>
  /\ tasks' = [t \in TaskIds |->
                 IF tasks[t] = NoTask THEN NoTask
                 ELSE [tasks[t] EXCEPT !.stale = TRUE, !.current = FALSE]]
  /\ completions' = <<>>
  /\ trail' = IF raced > 0 \/ Live # {} THEN <<>> ELSE <<Present(initialQuestion, <<>>)>>
  /\ raced' = IF Live # {} THEN raced + 1 ELSE raced
  /\ backIgnored' = FALSE
  /\ UNCHANGED <<faults, provider, menuVars, memberVars, onFaultCalls, uncaught>>

\* The trigger is clicked: onOpenChange(true) opens the drawer and resets.
\* Handlers still in flight keep running; they are now stale.
OpenDrawer ==
  /\ ~open
  /\ Live = {} \/ faults + raced < MaxDisturbances
  /\ open' = TRUE
  /\ handleReset
  /\ tasks' = [t \in TaskIds |->
                 IF tasks[t] = NoTask THEN NoTask
                 ELSE [tasks[t] EXCEPT !.stale = TRUE, !.current = FALSE]]
  /\ completions' = <<>>
  /\ trail' = IF raced > 0 \/ Live # {} THEN <<>> ELSE <<Present(initialQuestion, <<>>)>>
  /\ raced' = IF Live # {} THEN raced + 1 ELSE raced
  /\ backIgnored' = FALSE
  /\ UNCHANGED <<faults, provider, menuVars, memberVars, onFaultCalls, uncaught>>

\* The user dismisses the drawer (Escape, overlay, drag, or the cancel
\* button): onOpenChange(false) only closes it.
CloseDrawer ==
  /\ open
  /\ open' = FALSE
  /\ UNCHANGED <<currentQuestion, answers, direction, isInitial, isLoading,
                 showLoadingPopout, popoutTimer, tasks, completions, trail, faults, raced,
                 provider, menuVars, memberVars, onFaultCalls, uncaught, backIgnored>>

\* handleOptionSelect(option) up to its first await: an option button is
\* clicked (the buttons are disabled while isLoading).
handleOptionSelect(option) ==
  /\ open /\ ~isLoading
  /\ Len(answers) < HistoryBound
  /\ \E t \in TaskIds : tasks[t] = NoTask
  /\ LET newAnswers == Append(answers, NewAnswer(currentQuestion, option))
     IN /\ answers' = newAnswers
        /\ tasks' = Begin(FreeSlot,
                         Task("select", newAnswers, TRUE, SelectArg(newAnswers), "onAnswer", NoTimer))
  /\ direction' = 1
  /\ isInitial' = FALSE
  /\ Render(TRUE, showLoadingPopout)
  /\ backIgnored' = FALSE
  /\ UNCHANGED <<open, currentQuestion, completions, trail, faults, raced,
                 provider, menuVars, memberVars, onFaultCalls, uncaught>>

\* A faulty variant of BackDirection: going back leaves the direction as it
\* is.
BackDirectionKept == direction

\* The direction handleBack sets: setDirection(-1).
BackDirection == -1

\* A faulty variant of BackNoOp: handleBack goes on with an empty History.
BackNoOpNever(h) == FALSE

\* handleBack's first line: "if (answers.length === 0) return".
BackNoOp(h) == Len(h) = 0

\* handleBack up to its first await: the back button is clicked.  With an
\* empty truncated history the initial question is set at once and the
\* handler goes straight to its minimum-duration wait.
handleBack ==
  /\ open /\ ~isLoading
  /\ IF BackNoOp(answers)
     THEN /\ backIgnored' = TRUE
          /\ UNCHANGED <<open, currentQuestion, answers, direction, isInitial,
                         isLoading, showLoadingPopout, popoutTimer, tasks,
                         completions, trail, faults, raced, provider, menuVars, memberVars, onFaultCalls, uncaught>>
     ELSE
       /\ \E t \in TaskIds : tasks[t] = NoTask
       /\ LET newAnswers == SliceLast(answers)
          IN /\ answers' = newAnswers
             /\ IF BackToInitial(newAnswers)
                THEN /\ currentQuestion' = initialQuestion
                     /\ tasks' = Begin(FreeSlot,
                                      Task("back", newAnswers, FALSE, <<>>, "delay", MIN_LOADING_MS))
                ELSE /\ currentQuestion' = currentQuestion
                     /\ tasks' = Begin(FreeSlot,
                                      Task("back", newAnswers, TRUE, BackArg(newAnswers), "onAnswer", NoTimer))
       /\ direction' = BackDirection
       /\ isInitial' = FALSE
       /\ Render(TRUE, showLoadingPopout)
       /\ trail' = IF trail = <<>> THEN trail ELSE Front(trail)
       /\ backIgnored' = FALSE
       /\ UNCHANGED <<open, completions, faults, raced, provider, menuVars, memberVars, onFaultCalls, uncaught>>

\* An outcome of an arbitrary callback deviates when it is not what
\* getNextQuestion gives for the history the call was made with.
Deviates(arg, r) == ~MapFlow /\ r # getNextQuestion(arg)

\* What a call of onComplete may do: handleComplete only logs; otherwise the
\* component accepts any callback.
OnCompleteOutcomes == IF MapFlow THEN {"returns"} ELSE {"returns", "throws"}

\* A faulty variant of Caught: onComplete is called outside the try block.
CaughtOnAnswerOnly(call) == call = "onAnswer"

\* The calls that the try blocks of the handlers enclose.
Caught(call) == call \in {"onAnswer", "onComplete"}

\* handleOptionSelect after its minimum-duration wait: the next question is
\* shown, or the flow completes: onComplete(newAnswers), setOpen(false).  A
\* throw of onComplete lands in the catch block, so setOpen(false) is skipped.
\* The finally block clears isLoading.  deviated is 1 when the outcome r
\* deviated, and newAnswers is the handler's array as it is now.
ApplySelect(t, r, deviated, newAnswers) ==
  /\ IF r # Null
     THEN /\ currentQuestion' = r
          /\ open' = open
          /\ completions' = completions
          /\ faults' = faults + deviated
          /\ uncaught' = uncaught
     ELSE \E outcome \in OnCompleteOutcomes :
            /\ outcome = "throws" => faults + raced + deviated < MaxDisturbances
            /\ currentQuestion' = currentQuestion
            /\ open' = IF outcome = "throws" THEN open ELSE FALSE
            /\ completions' = Append(completions,
                                     [answers |-> newAnswers,
                                      history |-> answers',
                                      stale |-> tasks[t].stale,
                                      threw |-> outcome = "throws"])
            /\ faults' = faults + deviated + (IF outcome = "throws" THEN 1 ELSE 0)
            /\ uncaught' = IF outcome = "throws" /\ ~Caught("onComplete")
                           THEN uncaught + 1 ELSE uncaught
  /\ tasks' = [tasks EXCEPT ![t] = NoTask]
  /\ Render(FALSE, showLoadingPopout)
  /\ trail' = IF raced > 0 THEN trail
              ELSE Append(trail, Present(r, newAnswers))
  /\ UNCHANGED <<direction, isInitial, raced>>

\* A faulty variant of CatchError: there is no finally block, so isLoading
\* stays true.
CatchErrorNoFinally(t) ==
  /\ tasks' = [tasks EXCEPT ![t] = NoTask]
  /\ UNCHANGED <<open, currentQuestion, direction, isInitial,
                 isLoading, showLoadingPopout, popoutTimer, completions, trail, raced>>

\* A faulty variant of CatchError: the failed call is made again.
CatchErrorRetries(t) ==
  /\ tasks' = [tasks EXCEPT ![t].elapsed = tasks[t].elapsed]
  /\ UNCHANGED <<open, currentQuestion, direction, isInitial,
                 isLoading, showLoadingPopout, popoutTimer, completions, trail, raced>>

\* The catch and finally blocks of either handler: the error is logged and
\* isLoading is cleared.
CatchError(t) ==
  /\ tasks' = [tasks EXCEPT ![t] = NoTask]
  /\ Render(FALSE, showLoadingPopout)
  /\ UNCHANGED <<open, currentQuestion, direction, isInitial,
                 completions, trail, raced>>

\* handleBack after its minimum-duration wait: the finally block.
FinishBack(t) ==
  /\ tasks' = [tasks EXCEPT ![t] = NoTask]
  /\ Render(FALSE, showLoadingPopout)
  /\ UNCHANGED <<open, direction, isInitial, completions, trail, raced>>

\* A faulty variant of ShownAfterBack: the outcome is never shown.
ShownAfterBackKeeps(previousQuestion) == currentQuestion

\* A faulty variant of ShownAfterBack: null is shown like a Question.
ShownAfterBackUnchecked(previousQuestion) == previousQuestion

\* The question on display once handleBack has its onAnswer outcome: "if
\* (previousQuestion) setCurrentQuestion(previousQuestion)".
ShownAfterBack(previousQuestion) ==
  IF previousQuestion # Null THEN previousQuestion ELSE currentQuestion

\* handleAnswer's "await delay(300)" is over for task t's call within the
\* TickMs that follow the task's elapsed time.
ProviderDue(t) == tasks[t].elapsed + TickMs > MAP_DELAY_MS

\* The onAnswer call of task t settles with outcome r.
\* handleOptionSelect: "elapsed < 500" decides whether it waits before it
\* applies the outcome.  handleBack: a Question is shown at once (null is
\* ignored), then it waits.  What the call pushed onto the array it
\* was handed is in the handler's newAnswers, and in the answers state when
\* that holds the same array.
OnAnswerSettles(t, r) ==
  /\ t \in Outstanding
  /\ MapFlow => ProviderDue(t)
  /\ r \in OnAnswerOutcomes(tasks[t].arg)
  /\ answers' = IF tasks[t].current THEN answers \o Pushed(tasks[t].arg) ELSE answers
  /\ LET deviated == IF Deviates(tasks[t].arg, r) THEN 1 ELSE 0
         newAnswers == tasks[t].newAnswers \o Pushed(tasks[t].arg)
     IN /\ deviated = 1 => faults + raced < MaxDisturbances
        /\ IF r = Rejected
           THEN /\ CatchError(t)
                /\ faults' = faults + deviated
                /\ uncaught' = IF Caught("onAnswer") THEN uncaught ELSE uncaught + 1
           ELSE IF tasks[t].kind = "select" THEN
             IF tasks[t].elapsed < MIN_LOADING_MS
             THEN /\ tasks' = [tasks EXCEPT ![t].pc = "delay",
                                             ![t].newAnswers = newAnswers,
                                             ![t].nextQuestion = r,
                                             ![t].timer = MIN_LOADING_MS - tasks[t].elapsed]
                  /\ faults' = faults + deviated
                  /\ UNCHANGED <<open, currentQuestion, direction, isInitial,
                                 isLoading, showLoadingPopout, popoutTimer, completions,
                                 trail, raced, uncaught>>
             ELSE ApplySelect(t, r, deviated, newAnswers)
           ELSE
             /\ currentQuestion' = ShownAfterBack(r)
             /\ faults' = faults + deviated
             /\ uncaught' = uncaught
             /\ IF tasks[t].elapsed < MIN_LOADING_MS
                THEN /\ tasks' = [tasks EXCEPT ![t].pc = "delay",
                                                ![t].newAnswers = newAnswers,
                                                ![t].nextQuestion = r,
                                                ![t].timer = MIN_LOADING_MS - tasks[t].elapsed]
                     /\ UNCHANGED <<open, direction, isInitial, isLoading,
                                    showLoadingPopout, popoutTimer, completions,
                                    trail, raced>>
                ELSE FinishBack(t)
  /\ UNCHANGED <<provider, menuVars, memberVars, onFaultCalls, backIgnored>>

\* The setTimeout of task t's minimum-duration wait fires.
DelayElapsed(t) ==
  /\ t \in Live
  /\ tasks[t].pc = "delay"
  /\ tasks[t].timer <= 0
  /\ answers' = answers
  /\ IF tasks[t].kind = "select"
     THEN ApplySelect(t, tasks[t].nextQuestion, 0, tasks[t].newAnswers)
     ELSE FinishBack(t) /\ currentQuestion' = currentQuestion /\ UNCHANGED <<faults, uncaught>>
  /\ UNCHANGED <<provider, menuVars, memberVars, onFaultCalls, backIgnored>>

\* The effect's hide timer fires: setShowLoadingPopout(false).
PopoutTimeout ==
  /\ popoutTimer # NoTimer
  /\ popoutTimer <= 0
  /\ Render(isLoading, FALSE)
  /\ UNCHANGED <<open, currentQuestion, answers, direction, isInitial, tasks,
                 completions, trail, faults, raced, provider, menuVars, memberVars, onFaultCalls, uncaught,
                 backIgnored>>

\* TickMs milliseconds pass; no timer that is due is overtaken.
Tick ==
  /\ Live # {} \/ popoutTimer # NoTimer
  /\ \A t \in Live : tasks[t].pc = "delay" => tasks[t].timer > 0
  /\ MapFlow => \A t \in Outstanding : ~ProviderDue(t)
  /\ popoutTimer = NoTimer \/ popoutTimer > 0
  /\ tasks' = [t \in TaskIds |->
                 IF tasks[t] = NoTask THEN NoTask
                 ELSE [tasks[t] EXCEPT
                         !.elapsed = Min(@ + TickMs, MaxElapsedMs),
                         !.timer = IF @ = NoTimer THEN NoTimer
                                   ELSE IF @ > TickMs THEN @ - TickMs ELSE 0]]
  /\ popoutTimer' = IF popoutTimer = NoTimer THEN NoTimer
                    ELSE IF popoutTimer > TickMs THEN popoutTimer - TickMs ELSE 0
  /\ UNCHANGED <<open, currentQuestion, answers, direction, isInitial, isLoading,
                 showLoadingPopout, completions, trail, faults, raced,
                 provider, menuVars, memberVars, onFaultCalls, uncaught, backIgnored>>

\* --------------------------------------------------------- the hamburger menu
\* useState(null) of userData; a record, so that it compares with a user.
\* "currentUser?.name || default" treats it like a user without a name.
NullUser == [name |-> "", avatar |-> ""]

\* What /current-user.json and /emergency-contacts.json may hold: samples,
\* the files are served from outside the components.
UserJson == {[name |-> "Alex", avatar |-> "/avatar/alex.png"]}
ContactsJson == {<<>>, <<[name |-> "Kim", avatar |-> "/avatar/kim.png"]>>}
NewsJson == {<<>>, <<[id |-> 1, title |-> "Aftershock warning"]>>}

\* What each fetch may be fulfilled with.
FetchData(which) ==
  CASE which = "user" -> UserJson [] which = "contacts" -> ContactsJson
    [] which = "news" -> NewsJson

\* What the user may type into the chat input.
InputTexts == {"", " ", "ok", " ok "}

\* String.prototype.trim on the texts of the model.
Trim(text) ==
  CASE text = "" -> "" [] text = " " -> "" [] text = "ok" -> "ok" [] text = " ok " -> "ok"

\* a || b for strings: the empty string is falsy.
OrElse(a, b) == IF a # "" THEN a ELSE b

\* emergencyContacts[i]?.name and emergencyContacts[i]?.avatar, "" standing
\* for undefined.
ContactName(contacts, i) == IF i <= Len(contacts) THEN contacts[i].name ELSE ""
ContactAvatar(contacts, i) == IF i <= Len(contacts) THEN contacts[i].avatar ELSE ""

\* A ChatMessage; the timestamp is presentation only.
ChatMessage(id, senderId, senderName, senderAvatar, message) ==
  [id |-> id, senderId |-> senderId, senderName |-> senderName,
   senderAvatar |-> senderAvatar, message |-> message]

\* initialMessages of the prefill effect, for the props it ran with.
initialMessages(contacts, currentUser) ==
  << ChatMessage(1, "1", OrElse(ContactName(contacts, 1), "Contact 1"),
                 OrElse(ContactAvatar(contacts, 1), "/avatar/1.png"), "Is everyone all right?"),
     ChatMessage(2, "me", OrElse(currentUser.name, "Me"),
                 OrElse(currentUser.avatar, "/avatar/user.png"), "I am fine here"),
     ChatMessage(3, "2", OrElse(ContactName(contacts, 2), "Contact 2"),
                 OrElse(ContactAvatar(contacts, 2), "/avatar/2.png"), "At home, nobody hurt"),
     ChatMessage(4, "3", OrElse(ContactName(contacts, 3), "Contact 3"),
                 OrElse(ContactAvatar(contacts, 3), "/avatar/3.png"), "Just left the office"),
     ChatMessage(5, "4", OrElse(ContactName(contacts, 4), "Contact 4"),
                 OrElse(ContactAvatar(contacts, 4), "/avatar/4.png"), "The bookcase fell over") >>

\* The menu drawer is opened: its content is mounted, StatusReportDialog with
\* it; the prefill effect runs after the first render.
OpenMenu ==
  /\ ~menuOpen
  /\ menuOpen' = TRUE
  /\ messages' = initialMessages(emergencyContacts, userData)
  /\ inputMessage' = ""
  /\ sent' = <<>>
  /\ UNCHANGED <<userData, emergencyContacts, news, fetches, isReportDialogOpen,
                 engineVars, memberVars>>

\* The menu drawer is closed: its content is unmounted, and the state of
\* StatusReportDialog is gone.
CloseMenu ==
  /\ menuOpen
  /\ menuOpen' = FALSE
  /\ messages' = <<>>
  /\ inputMessage' = ""
  /\ sent' = <<>>
  /\ UNCHANGED <<userData, emergencyContacts, news, fetches, isReportDialogOpen,
                 engineVars, memberVars>>

\* onOpenChange of the report dialog: setIsReportDialogOpen.
SetIsReportDialogOpen(value) ==
  /\ menuOpen
  /\ isReportDialogOpen # value
  /\ isReportDialogOpen' = value
  /\ UNCHANGED <<userData, emergencyContacts, news, fetches, menuOpen, messages,
                 inputMessage, sent, engineVars, memberVars>>

\* onChange of the chat input.
SetInputMessage(text) ==
  /\ menuOpen /\ isReportDialogOpen
  /\ inputMessage # text
  /\ inputMessage' = text
  /\ UNCHANGED <<userData, emergencyContacts, news, fetches, menuOpen,
                 isReportDialogOpen, messages, sent, engineVars, memberVars>>

\* The id handleSendMessage gives a new message.
NextMessageId(list) == Len(list) + 1

\* handleSendMessage: the send button, or Enter in the input.
handleSendMessage ==
  /\ menuOpen /\ isReportDialogOpen
  /\ IF Trim(inputMessage) = ""
     THEN UNCHANGED <<messages, inputMessage, sent>>
     ELSE LET newMessage ==
                ChatMessage(NextMessageId(messages), "me", OrElse(userData.name, "Me"),
                            OrElse(userData.avatar, "/avatar/user.png"), inputMessage)
          IN /\ Len(sent) < MaxSent
             /\ messages' = Append(messages, newMessage)
             /\ inputMessage' = ""
             /\ sent' = Append(sent, newMessage)
  /\ UNCHANGED <<userData, emergencyContacts, news, fetches, menuOpen,
                 isReportDialogOpen, engineVars, memberVars>>

\* The prefill effect of StatusReportDialog after a render with the given
\* props: it runs when emergencyContacts or currentUser is another object than
\* at the last render, and only while the dialog is mounted.
Prefill(contacts, currentUser, changed) ==
  IF menuOpen /\ changed THEN initialMessages(contacts, currentUser) ELSE messages

\* One of the fetches of HamburgerMenu's mount effect is fulfilled with data,
\* and the state is set: setUserData(data), setEmergencyContacts(data.contacts
\* || []), setNews(data.news || []).
FetchFulfilled(which, data) ==
  /\ fetches[which] = "pending"
  /\ fetches' = [fetches EXCEPT ![which] = "fulfilled"]
  /\ CASE which = "user" ->
            /\ userData' = data
            /\ messages' = Prefill(emergencyContacts, data, TRUE)
            /\ UNCHANGED <<emergencyContacts, news>>
       [] which = "contacts" ->
            /\ emergencyContacts' = data
            /\ messages' = Prefill(data, userData, TRUE)
            /\ UNCHANGED <<userData, news>>
       [] which = "news" ->
            /\ news' = data
            /\ messages' = Prefill(emergencyContacts, userData, FALSE)
            /\ UNCHANGED <<userData, emergencyContacts>>
  /\ UNCHANGED <<menuOpen, isReportDialogOpen, inputMessage, sent, engineVars, memberVars>>

\* One of the fetches fails (the request, or res.json()): the catch logs it.
FetchRejected(which) ==
  /\ fetches[which] = "pending"
  /\ fetches' = [fetches EXCEPT ![which] = "rejected"]
  /\ UNCHANGED <<userData, emergencyContacts, news, menuOpen, isReportDialogOpen,
                 messages, inputMessage, sent, engineVars, memberVars>>

\* useState initial values of HamburgerMenu and UserDrawer, with the three
\* fetches of the mount effect under way and the menu drawer closed.
MenuInit ==
  /\ userData = NullUser
  /\ emergencyContacts = <<>>
  /\ news = <<>>
  /\ fetches = [which \in {"user", "contacts", "news"} |-> "pending"]
  /\ menuOpen = FALSE
  /\ isReportDialogOpen = FALSE
  /\ messages = <<>>
  /\ inputMessage = ""
  /\ sent = <<>>

\* ------------------------------------------------------ the add-member drawer
\* useState initial value of newMember; the coordinates are the decimal
\* literals of the source.
INITIAL_MEMBER ==
  [name |-> "", relation |-> "", phone |-> "", avatar |-> "",
   coordinates |-> <<"121.4685", "25.0458">>]

\* What the user may type into a field of the form.
FieldTexts(field) == IF field = "avatar" THEN {"", "/avatar/amy.png"} ELSE {"", "x"}

\* A faulty variant of MissingRequired: only the name is required.
MissingRequiredNameOnly(member) == member.name = ""

\* handleSubmit's test: "!newMember.name || !newMember.phone ||
\* !newMember.relation".
MissingRequired(member) ==
  member.name = "" \/ member.phone = "" \/ member.relation = ""

\* onOpenChange of the add-member drawer: setIsOpen.
SetIsOpen(value) ==
  /\ isOpen # value
  /\ isOpen' = value
  /\ alertShown' = FALSE
  /\ UNCHANGED <<newMember, addMemberCalls, engineVars, menuVars>>

\* onChange of an input of the form.
SetNewMember(field, text) ==
  /\ isOpen
  /\ newMember[field] # text
  /\ newMember' = [newMember EXCEPT ![field] = text]
  /\ alertShown' = FALSE
  /\ UNCHANGED <<isOpen, addMemberCalls, engineVars, menuVars>>

\* handleSubmit: the submit button of the form.
handleSubmit ==
  /\ isOpen
  /\ IF MissingRequired(newMember)
     THEN /\ alertShown' = TRUE
          /\ UNCHANGED <<isOpen, newMember, addMemberCalls>>
     ELSE /\ Len(addMemberCalls) < MaxMembers
          /\ addMemberCalls' =
               Append(addMemberCalls,
                      [name |-> newMember.name, relation |-> newMember.relation,
                       phone |-> newMember.phone,
                       avatar |-> OrElse(newMember.avatar, "/avatar/user.png"),
                       coordinates |-> newMember.coordinates])
          /\ isOpen' = FALSE
          /\ newMember' = INITIAL_MEMBER
          /\ alertShown' = FALSE
  /\ UNCHANGED <<engineVars, menuVars>>

\* useState initial values of AddMemberDrawer.
MemberInit ==
  /\ isOpen = FALSE
  /\ newMember = INITIAL_MEMBER
  /\ addMemberCalls = <<>>
  /\ alertShown = FALSE

\* ------------------------------------------------------------ specification
\* useState initial values; the drawer starts closed.
Init ==
  /\ provider = "anyCallback"
  /\ open = FALSE
  /\ currentQuestion = initialQuestion
  /\ answers = <<>>
  /\ direction = 1
  /\ isInitial = TRUE
  /\ isLoading = FALSE
  /\ showLoadingPopout = FALSE
  /\ popoutTimer = NoTimer
  /\ tasks = [t \in TaskIds |-> NoTask]
  /\ completions = <<>>
  /\ trail = <<Present(initialQuestion, <<>>)>>
  /\ faults = 0
  /\ raced = 0
  /\ onFaultCalls = 0
  /\ uncaught = 0
  /\ backIgnored = FALSE
  /\ MenuInit
  /\ MemberInit

Next ==
  \/ OpenDrawer
  \/ CloseDrawer
  \/ \E option \in Clickable(currentQuestion) : handleOptionSelect(option)
  \/ handleBack
  \/ \E t \in Outstanding : \E r \in OnAnswerOutcomes(tasks[t].arg) : OnAnswerSettles(t, r)
  \/ \E t \in TaskIds : DelayElapsed(t)
  \/ PopoutTimeout
  \/ Tick

Spec == Init /\ [][Next]_vars

\* The component as MapBasedLocationDrawer renders it.
MapInit ==
  /\ provider = "handleAnswer"
  /\ open = FALSE
  /\ currentQuestion = initialQuestion
  /\ answers = <<>>
  /\ direction = 1
  /\ isInitial = TRUE
  /\ isLoading = FALSE
  /\ showLoadingPopout = FALSE
  /\ popoutTimer = NoTimer
  /\ tasks = [t \in TaskIds |-> NoTask]
  /\ completions = <<>>
  /\ trail = <<Present(initialQuestion, <<>>)>>
  /\ faults = 0
  /\ raced = 0
  /\ onFaultCalls = 0
  /\ uncaught = 0
  /\ backIgnored = FALSE
  /\ MenuInit
  /\ MemberInit

MapSpec == MapInit /\ [][Next]_vars

MenuNext ==
  \/ OpenMenu
  \/ CloseMenu
  \/ \E value \in BOOLEAN : SetIsReportDialogOpen(value)
  \/ \E text \in InputTexts : SetInputMessage(text)
  \/ handleSendMessage
  \/ \E which \in DOMAIN fetches : \E data \in FetchData(which) :
       FetchFulfilled(which, data)
  \/ \E which \in DOMAIN fetches : FetchRejected(which)

\* HamburgerMenu on its own.
MenuSpec == Init /\ [][MenuNext]_vars

MemberNext ==
  \/ \E value \in BOOLEAN : SetIsOpen(value)
  \/ \E field \in {"name", "relation", "phone", "avatar"} :
       \E text \in FieldTexts(field) : SetNewMember(field, text)
  \/ handleSubmit

\* AddMemberDrawer on its own.
MemberSpec == Init /\ [][MemberNext]_vars

\* The component when every pending onAnswer call settles, every timer that
\* is due fires, and time goes on; the user is free to stop clicking.
LiveSpec ==
  /\ Spec
  /\ \A t \in TaskIds :
       /\ WF_vars(\E r \in OnAnswerOutcomes(<<>>) : OnAnswerSettles(t, r))
       /\ WF_vars(DelayElapsed(t))
  /\ WF_vars(PopoutTimeout)
  /\ WF_vars(Tick)

\* The first MaxOptions options of every question of the tree.
AllOptions == UNION {Clickable(QUESTION_TREE[k]) : k \in DOMAIN QUESTION_TREE}

\* The options that are not among the options of question q.
ForeignOptions(q) ==
  {o \in AllOptions : \A i \in DOMAIN q.options : q.options[i] # o}

\* The History holds no Answer made from a foreign option.
OwnAnswersOnly ==
  \A i \in 1..Len(answers) :
    \E k \in DOMAIN QUESTION_TREE :
      /\ QUESTION_TREE[k].id = answers[i].questionId
      /\ \E j \in DOMAIN QUESTION_TREE[k].options :
           QUESTION_TREE[k].options[j].value = answers[i].value

\* handleOptionSelect is handed an option that no button of the question on
\* display carries; one such call at a time is explored, in runs without any
\* other disturbance.
SelectForeignOption ==
  /\ faults + raced = 0
  /\ OwnAnswersOnly
  /\ \E option \in ForeignOptions(currentQuestion) : handleOptionSelect(option)

NextAnyCaller == Next \/ SelectForeignOption

\* The component with handleOptionSelect open to any caller.
SpecAnyCaller == Init /\ [][NextAnyCaller]_vars

\* ------------------------------------------------------------------ claims
\* No handler is running and the busy flag is down.
Settled == Live = {} /\ ~isLoading

\* Task t was started by this step.
Started(t) == tasks[t] = NoTask /\ tasks'[t] # NoTask

\* C1: selectOption on question q with History h and option o makes the
\* History h followed by the one Answer {q.id, o.value, o.label}, and calls
\* onAnswer with exactly that complete new History.
C1_SelectAppendsAndCallsWithFullHistory ==
  [][\A o \in Clickable(currentQuestion) :
       handleOptionSelect(o) =>
         /\ answers' = Append(answers, [questionId |-> currentQuestion.id,
                                        value |-> o.value, label |-> o.label])
         /\ \E t \in TaskIds :
              /\ Started(t)
              /\ tasks'[t].called
              /\ tasks'[t].pc = "onAnswer"
              /\ tasks'[t].arg = answers'
         /\ Cardinality(Outstanding') = Cardinality(Outstanding) + 1]_vars

\* C1's case: a second selection is waiting for onAnswer, which was given
\* both answers.
C1_Witness ==
  \E t \in Live :
    /\ tasks[t].kind = "select" /\ tasks[t].pc = "onAnswer" /\ ~tasks[t].stale
    /\ Len(answers) = 2 /\ tasks[t].arg = answers

\* C2: within one run onComplete is called at most once, and its argument is
\* the engine's full History at that moment.
C2_SingleCompletionWithFullHistory ==
  /\ Len(completions) <= 1
  /\ \A i \in 1..Len(completions) : completions[i].answers = completions[i].history

\* C3: once a reset has overtaken a handler, nothing that handler does later
\* changes the current question or the History.
C3_StaleOutcomeDiscarded ==
  [][\A t \in TaskIds :
       (tasks[t] # NoTask /\ tasks[t].stale /\ tasks'[t] # tasks[t])
         => (currentQuestion' = currentQuestion /\ answers' = answers)]_vars

\* C4: onComplete is never called, and the drawer never closed, by a handler
\* that a reset has overtaken.
C4_NoCompletionAfterReset ==
  /\ \A i \in 1..Len(completions) : ~completions[i].stale

\* C5: at most one onAnswer call is outstanding at a time.
C5_AtMostOneOutstanding == Cardinality(Outstanding) <= 1

\* C6: when the onAnswer call of a selectOption or goBack fails, the History
\* and the current question are again what they were before the operation,
\* and the busy flag is down.
C6_FailureRollsBack ==
  [][\A t \in TaskIds :
       (t \in Outstanding /\ ~tasks[t].stale /\ OnAnswerSettles(t, Rejected))
         => /\ answers' = tasks[t].answers
            /\ currentQuestion' = tasks[t].currentQuestion
            /\ ~isLoading']_vars

\* C7: after any sequence of selectOption and goBack, each resolved, the
\* History is as long as the number of net forward steps, and its i-th Answer
\* carries the id of the question presented at step i.
C7_HistoryInvariant ==
  (raced = 0 /\ Settled) =>
    /\ Len(answers) = Len(trail) - 1
    /\ \A i \in 1..Len(answers) :
         i <= Len(trail) /\ answers[i].questionId = trail[i].question.id

\* C8: with a deterministic provider, goBack operations, each resolved,
\* restore exactly the question and the History that were presented at the
\* depth they return to.
C8_BackRoundTrip ==
  (faults = 0 /\ raced = 0 /\ Settled /\ direction = -1) =>
    /\ trail # <<>>
    /\ currentQuestion = trail[Len(trail)].question
    /\ answers = trail[Len(trail)].answers

\* C8's cases: a goBack from depth 2 has resolved at depth 1; goBacks have
\* returned to the start.
C8_Witness ==
  /\ faults = 0 /\ raced = 0 /\ Settled /\ direction = -1 /\ open
  /\ Len(answers) = 1 /\ currentQuestion.id = "entrance-type"

\* C9: goBack with a History of length n > 0 leaves its first n-1 Answers,
\* and when n-1 > 0 calls onAnswer with exactly that truncated History.
C9_BackTruncatesAndCallsWithTruncated ==
  [][(handleBack /\ Len(answers) > 0) =>
       /\ answers' = SubSeq(answers, 1, Len(answers) - 1)
       /\ Len(answers) > 1 =>
            \E t \in TaskIds :
              /\ Started(t)
              /\ tasks'[t].called
              /\ tasks'[t].pc = "onAnswer"
              /\ tasks'[t].arg = answers']_vars

\* C9's case: a goBack from depth 2 is waiting for onAnswer, which was given
\* the first Answer alone.
C9_Witness ==
  \E t \in Live :
    /\ tasks[t].kind = "back" /\ tasks[t].called /\ tasks[t].pc = "onAnswer"
    /\ Len(tasks[t].answers) = 2 /\ Len(answers) = 1 /\ tasks[t].arg = answers

\* C10: goBack from a History of length 1 shows initialQuestion with an empty
\* History and makes no onAnswer call.
C10_BackToInitialWithoutCall ==
  [][(handleBack /\ Len(answers) = 1) =>
       /\ currentQuestion' = initialQuestion
       /\ answers' = <<>>
       /\ Outstanding' = Outstanding
       /\ \A t \in TaskIds : Started(t) => ~tasks'[t].called]_vars

\* C10's case: a goBack left a non-initial question for the start without a
\* call.
C10_Witness ==
  \E t \in Live :
    /\ tasks[t].kind = "back" /\ ~tasks[t].called /\ ~tasks[t].stale
    /\ tasks[t].currentQuestion # initialQuestion
    /\ answers = <<>> /\ currentQuestion = initialQuestion

\* This step is a reset: the drawer is opened.
ResetStep == ~open /\ open'

\* C11: every selectOption and goBack keeps the busy flag up for at least
\* MIN_LOADING_MS from the moment it raised it, goBack to the initial question
\* and operations whose onAnswer call fails included: no step other than a
\* reset lowers the flag while a handler is younger than that.
C11_MinimumBusyDuration ==
  [][\A t \in TaskIds :
       (tasks[t] # NoTask /\ ~tasks[t].stale /\ ~ResetStep
          /\ tasks[t].elapsed < MIN_LOADING_MS) => isLoading']_vars

\* C12: the popout is gone no later than max(operation duration,
\* MIN_LOADING_MS) after the operation began: in runs where every operation
\* held the busy flag that long, no time passes with the popout still shown
\* after the flag is down.
C12_PopoutGoneWithBusyFlag ==
  [][(faults = 0 /\ raced = 0 /\ showLoadingPopout /\ ~isLoading) => ~Tick]_vars

\* C13: while an onAnswer call is pending or the busy flag is up, no
\* selectOption or goBack takes effect: no handler starts, so the History and
\* the current question stay and no onAnswer call is made.
C13_BusyRejection ==
  [][(isLoading \/ Outstanding # {}) => \A t \in TaskIds : ~Started(t)]_vars

\* C14: once onComplete has been called, and until the next reset, the
\* History and the current question stay, no handler starts, and onComplete
\* is not called again.
C14_CompleteIsTerminal ==
  [][(completions # <<>> /\ ~ResetStep) =>
       /\ answers' = answers
       /\ currentQuestion' = currentQuestion
       /\ completions' = completions
       /\ \A t \in TaskIds : ~Started(t)]_vars

\* C15: a reset, from any state, leaves initialQuestion on display with an
\* empty History, the busy flag and the popout down, direction forward and
\* isInitial true.
C15_ResetToInitial ==
  [][OpenDrawer =>
       /\ currentQuestion' = initialQuestion
       /\ answers' = <<>>
       /\ ~isLoading'
       /\ ~showLoadingPopout'
       /\ direction' = 1
       /\ isInitial']_vars

\* C15's case: a reset has acted while a second selection was waiting for
\* onAnswer.
C15_Witness ==
  /\ open /\ raced = 1 /\ answers = <<>> /\ currentQuestion = initialQuestion
  /\ ~isLoading /\ ~showLoadingPopout /\ direction = 1 /\ isInitial
  /\ \E t \in Live :
       tasks[t].stale /\ tasks[t].pc = "onAnswer" /\ Len(tasks[t].newAnswers) = 2

C17_NullOnBackKeepsTruncated ==
  [][\A t \in TaskIds :
       /\ (t \in Outstanding /\ tasks[t].kind = "back" /\ OnAnswerSettles(t, Null))
            => /\ answers' = answers
               /\ raced = 0 => answers' = tasks[t].newAnswers
               /\ currentQuestion' = currentQuestion
               /\ completions' = completions
               /\ open' = open
               /\ IF tasks[t].elapsed < MIN_LOADING_MS
                  THEN tasks'[t] # NoTask /\ tasks'[t].pc = "delay"
                  ELSE tasks'[t] = NoTask /\ ~isLoading'
       /\ (t \in Live /\ tasks[t].kind = "back" /\ DelayElapsed(t))
            => /\ ~isLoading'
               /\ answers' = answers
               /\ currentQuestion' = currentQuestion
               /\ completions' = completions]_vars

\* C17's case: a goBack from depth 2 was given null: the first Answer alone
\* is the History, and the question of depth 2 is still on display.
C17_Witness ==
  \E t \in Live :
    /\ tasks[t].kind = "back" /\ tasks[t].called /\ tasks[t].pc = "delay"
    /\ tasks[t].nextQuestion = Null /\ ~tasks[t].stale
    /\ Len(answers) = 1 /\ answers = tasks[t].newAnswers
    /\ currentQuestion = QUESTION_TREE.final /\ open /\ completions = <<>>

\* C18: every failure of an onAnswer call is handed to the caller's fault
\* callback exactly once.
C18_FaultsReported ==
  [][\A t \in TaskIds :
       (t \in Outstanding /\ OnAnswerSettles(t, Rejected))
         => onFaultCalls' = onFaultCalls + 1]_vars

\* C19: no failure of onAnswer and no exception thrown by onComplete leaves
\* a handler uncaught.
C19_NoExceptionEscapes == uncaught = 0

\* C19's case: onComplete threw; the handler has ended with the busy flag
\* down and the drawer still open.
C19_Witness ==
  /\ uncaught = 0 /\ open /\ Settled
  /\ completions # <<>> /\ completions[1].threw

Questions == {QUESTION_TREE[k] : k \in DOMAIN QUESTION_TREE}

\* C21: when the onAnswer call of a goBack gives a Question whose id is not
\* the id of the question presented before at the depth gone back to, the
\* History stays as truncated and the question on display is not replaced by
\* the one given.
C21_UnexpectedQuestionNotShown ==
  [][\A t \in TaskIds : \A r \in Questions :
       (/\ t \in Outstanding /\ tasks[t].kind = "back"
        /\ faults = 0 /\ raced = 0 /\ trail # <<>>
        /\ r.id # trail[Len(trail)].question.id
        /\ OnAnswerSettles(t, r))
         => (answers' = answers /\ currentQuestion' # r)]_vars

\* C22: the question on display is replaced, and onComplete called, only
\* when the busy period of the operation ends, which is at least
\* MIN_LOADING_MS after it began: no step that begins or continues a busy
\* period changes the question, and a handler that calls onComplete or
\* changes the question is at least that old.
C22_ResultOnlyAfterMinimum ==
  [][/\ isLoading' => currentQuestion' = currentQuestion
     /\ \A t \in TaskIds :
          (/\ tasks[t] # NoTask /\ ~tasks[t].stale /\ tasks'[t] # tasks[t]
           /\ ~ResetStep
           /\ (currentQuestion' # currentQuestion \/ completions' # completions))
            => tasks[t].elapsed >= MIN_LOADING_MS]_vars

\* C23: whenever an onAnswer call made in the current run is outstanding,
\* the busy flag is up.
C23_BusyWhileOutstanding ==
  \A t \in Outstanding : ~tasks[t].stale => isLoading

\* C24: with a conforming provider and no reset overtaking a call, in every
\* state that is neither busy nor completed the question on display is
\* initialQuestion when the History is empty and onAnswer(History) otherwise.
C24_QuestionMatchesHistory ==
  (faults = 0 /\ raced = 0 /\ ~isLoading /\ completions = <<>>) =>
    currentQuestion = IF answers = <<>> THEN initialQuestion
                      ELSE getNextQuestion(answers)

\* C24's case: a goBack from depth 2 has resolved and shows again the
\* question that onAnswer gives for the first Answer.
C24_Witness ==
  /\ faults = 0 /\ raced = 0 /\ ~isLoading /\ completions = <<>> /\ open
  /\ direction = -1 /\ Len(answers) = 1
  /\ currentQuestion = QUESTION_TREE.restaurant

\* C25: whenever the History is empty and the busy flag is down, the
\* question on display is initialQuestion.
C25_EmptyHistoryShowsInitial ==
  (answers = <<>> /\ ~isLoading) => currentQuestion = initialQuestion

C27_NoRetries ==
  [][/\ \A t \in TaskIds : \A r \in OnAnswerOutcomes(<<>>) :
          OnAnswerSettles(t, r) =>
            (t \notin Outstanding' /\ Outstanding' \subseteq Outstanding)
     /\ \A t \in TaskIds :
          t \in Outstanding' =>
            (t \in Outstanding \/ (Started(t) /\ tasks'[t].called))
     /\ Cardinality(Outstanding') <= Cardinality(Outstanding) + 1]_vars

\* C27's case: an onAnswer call was rejected, its handler has ended and no
\* call is outstanding.
C27_Witness ==
  /\ faults = 1 /\ raced = 0 /\ Live = {} /\ Outstanding = {} /\ ~isLoading
  /\ Len(answers) = 2 /\ Len(trail) = 2

C29_BackOnEmptyIsNoOp ==
  [][(handleBack /\ Len(answers) = 0) =>
       UNCHANGED <<answers, currentQuestion, direction, isInitial, isLoading,
                   showLoadingPopout, tasks, open, completions>>]_vars

\* C29's case: handleBack was called with an empty History and returned at
\* once.
C29_Witness ==
  /\ backIgnored /\ open /\ answers = <<>> /\ currentQuestion = initialQuestion
  /\ ~isLoading /\ Live = {} /\ direction = 1

\* C30: every onAnswer call is given a History of at least one Answer.
C30_NeverCalledWithEmptyHistory ==
  \A t \in Live : tasks[t].called => Len(tasks[t].arg) >= 1

\* C30's case: a goBack from depth 2 called onAnswer with one Answer, and a
\* goBack from depth 1 made no call.
C30_Witness ==
  \E t \in Live :
    /\ tasks[t].kind = "back" /\ tasks[t].called /\ tasks[t].pc = "delay"
    /\ Len(tasks[t].arg) = 1 /\ ~tasks[t].stale

\* ------------------------------------------- claims about the map-based flow
\* C31: a call of the decision provider leaves the engine's History as it
\* is: the History holds the Answers that selectOption appended and goBack
\* has not removed, and nothing else.
C31_ProviderCallLeavesHistory ==
  [][\A t \in Outstanding : \A r \in OnAnswerOutcomes(tasks[t].arg) :
       OnAnswerSettles(t, r) => answers' = answers]_vars

\* C32: in the map flow, a goBack that has resolved leaves a History strictly
\* shorter than the one it started from, with the question that was presented
\* at that depth on display.
C32_MapBackShortensHistory ==
  [][\A t \in Live :
       (/\ MapFlow /\ raced = 0
        /\ tasks[t].kind = "back" /\ tasks'[t] = NoTask)
       => /\ Len(answers') < Len(tasks[t].answers)
          /\ trail' # <<>> => currentQuestion' = trail'[Len(trail')].question]_vars

\* C33: in the map flow, the History handed to onComplete holds no two
\* Answers with the same questionId.
C33_MapQuestionIdsUnique ==
  (MapFlow /\ raced = 0) =>
    \A c \in DOMAIN completions :
      \A i, j \in DOMAIN completions[c].answers :
        i # j => completions[c].answers[i].questionId # completions[c].answers[j].questionId

\* C34: in the map flow, the selections that have not been gone back on
\* number at most 4, the fourth is answered with null (the flow completes),
\* and every question on display has an option to select.
C34_MapFlowTerminates ==
  (MapFlow /\ raced = 0) =>
    /\ Len(trail) <= 5
    /\ Len(trail) = 5 => trail[5].question = Null
    /\ \A i \in DOMAIN trail :
         trail[i].question # Null => trail[i].question.options # <<>>
    /\ currentQuestion.options # <<>>

\* C34's case: a run of four selections has completed with a History of five
\* Answers, one of them pushed by handleAnswer.
C34_Witness ==
  /\ MapFlow /\ raced = 0 /\ ~open
  /\ Len(trail) = 5
  /\ \E c \in DOMAIN completions : Len(completions[c].answers) = 5

\* C35: direction is 1 after every selectOption and after a reset, and -1
\* after every goBack on a non-empty History; isInitial is false after a
\* selectOption or such a goBack and true after a reset; no other step, a
\* goBack on an empty History included, changes either.
C35_DirectionTracking ==
  [][/\ (\E o \in Clickable(currentQuestion) : handleOptionSelect(o))
          => (direction' = 1 /\ ~isInitial')
     /\ (handleBack /\ answers # <<>>) => (direction' = -1 /\ ~isInitial')
     /\ ResetStep => (direction' = 1 /\ isInitial')
     /\ ~(\/ \E o \in Clickable(currentQuestion) : handleOptionSelect(o)
          \/ handleBack /\ answers # <<>>
          \/ ResetStep)
          => UNCHANGED <<direction, isInitial>>]_vars

\* C35's case: a goBack from a History of two Answers has finished.
C35_Witness ==
  /\ open /\ Live = {} /\ raced = 0 /\ faults = 0
  /\ direction = -1 /\ ~isInitial /\ Len(answers) = 1

\* ------------------------------------ claims about the menu and the form
\* C36: while StatusReportDialog is mounted, every message that
\* handleSendMessage appended is still in the message list, whenever the
\* fetches of HamburgerMenu settle; and no two messages of the list have the
\* same id.
C36_SentMessagesStay ==
  /\ menuOpen => \A i \in DOMAIN sent : \E j \in DOMAIN messages : messages[j] = sent[i]
  /\ \A i, j \in DOMAIN messages : i # j => messages[i].id # messages[j].id

\* C37: handleSubmit with an empty name, phone or relation calls nothing and
\* leaves the form and the open state as they are; otherwise it calls
\* addMember once with the entered values, "/avatar/user.png" standing in for
\* an empty avatar, closes the drawer and resets every field of the form.
C37_SubmitValidates ==
  [][handleSubmit =>
       IF newMember.name = "" \/ newMember.phone = "" \/ newMember.relation = ""
       THEN UNCHANGED <<addMemberCalls, newMember, isOpen>>
       ELSE /\ Len(addMemberCalls') = Len(addMemberCalls) + 1
            /\ \A i \in DOMAIN addMemberCalls : addMemberCalls'[i] = addMemberCalls[i]
            /\ addMemberCalls'[Len(addMemberCalls')] =
                 [name |-> newMember.name, relation |-> newMember.relation,
                  phone |-> newMember.phone,
                  avatar |-> IF newMember.avatar = "" THEN "/avatar/user.png"
                             ELSE newMember.avatar,
                  coordinates |-> newMember.coordinates]
            /\ ~isOpen'
            /\ newMember' = [name |-> "", relation |-> "", phone |-> "", avatar |-> "",
                             coordinates |-> <<"121.4685", "25.0458">>]]_vars

\* C37's case: a form without an avatar and a form with one have been
\* submitted; the drawer is closed and the form is empty again.
C37_Witness ==
  /\ ~isOpen /\ newMember = INITIAL_MEMBER
  /\ Len(addMemberCalls) = 2
  /\ addMemberCalls[1].avatar = "/avatar/user.png"
  /\ addMemberCalls[2].avatar = "/avatar/amy.png"

====
